---- MODULE Spec2Model ----
(***************************************************************************)
(* The batch/epoch iteration loops of keras/engine/training_arrays.py:     *)
(* get_batch_generator, fit_loop, evaluate_loop and predict_loop, with the *)
(* observers (callbacks) and the compute steps as the environment.         *)
(*                                                                         *)
(* Encoding of Python values:                                              *)
(*   None              -> None (-1); step counts and sample counts are     *)
(*                        naturals, so -1 is free                          *)
(*   a list of arrays  -> the number of samples on its leading axis; 0 is  *)
(*                        the empty list [] (falsy, like None)             *)
(*   a metric name     -> <<k, base>>: base with k "val_" prefixes         *)
(*   a float quotient  -> [num, den], the exact fraction num/den           *)
(***************************************************************************)
EXTENDS Integers, Sequences, FiniteSets, TLC

VARIABLES
    model,      \* the model object: metric names, stop flags, history
    top,        \* what the caller of the loops is doing
    fit,        \* frame of fit_loop
    ev,         \* frame of evaluate_loop
    pr,         \* frame of predict_loop
    gen,        \* a generator made by a direct call of get_batch_generator
    yielded,    \* the batches that generator has yielded so far
    trace,      \* notifications and compute steps of the current top-level call
    cb_params,  \* the params the observers hold (set_params)
    ret,        \* what the last top-level call returned or raised
    calls       \* number of top-level calls made so far

vars == <<model, top, fit, ev, pr, gen, yielded, trace, cb_params, ret, calls>>

None == -1

\* Bounds of the model.
MaxGenSamples == 5
MaxSamples == 3
MaxBatch == 2
MaxEvalSamples == 5
MaxEvalBatch == 3
MaxFitSamples == 2
MaxSteps == 2
MaxEpochs == 2
MaxCalls == 1

Min(a, b) == IF a <= b THEN a ELSE b

CeilDiv(a, b) == (a + b - 1) \div b

RECURSIVE SumSeq(_)
SumSeq(s) == IF s = <<>> THEN 0 ELSE Head(s) + SumSeq(Tail(s))

RECURSIVE Flatten(_)
Flatten(ss) == IF ss = <<>> THEN <<>> ELSE Head(ss) \o Flatten(Tail(ss))

Range(s) == {s[i] : i \in DOMAIN s}

Perms(k) == {p \in [1..k -> 1..k] : \A i, j \in 1..k : p[i] = p[j] => i = j}

(***************************************************************************)
(* get_batch_generator                                                     *)
(***************************************************************************)

\* np.arange(num_samples)
arange(n) == [i \in 1..n |-> i - 1]

\* np.random.shuffle(index_array): every permutation is a possible outcome.
shuffle_outcomes(a) == {[i \in 1..Len(a) |-> a[p[i]]] : p \in Perms(Len(a))}

\* batch_shuffle(index_array, batch_size): the whole batch_size blocks are
\* permuted, the order inside a block is kept and the trailing partial block
\* stays where it is.
batch_shuffle(a, batch_size) ==
    LET batch_count == Len(a) \div batch_size
    IN  {[j \in 1..Len(a) |->
            IF j <= batch_count * batch_size
            THEN a[(p[((j - 1) \div batch_size) + 1] - 1) * batch_size
                   + ((j - 1) % batch_size) + 1]
            ELSE a[j]] : p \in Perms(batch_count)}

\* make_batches(size, batch_size): the (start, end) pairs of the batches.
make_batches(size, batch_size) ==
    [k \in 1..CeilDiv(size, batch_size) |->
        <<(k - 1) * batch_size, Min(size, k * batch_size)>>]

index_arrays_unblocked(num_samples, batch_size, shuffle) ==
    IF shuffle = "false" THEN {arange(num_samples)}
    ELSE shuffle_outcomes(arange(num_samples))

\* lines 458-462: the index array the generator iterates over.
index_arrays(num_samples, batch_size, shuffle) ==
    IF shuffle = "batch" THEN batch_shuffle(arange(num_samples), batch_size)
    ELSE IF shuffle = "true" THEN shuffle_outcomes(arange(num_samples))
    ELSE {arange(num_samples)}

batch_ids_short(index_array, batch) == SubSeq(index_array, batch[1] + 1, batch[2] - 1)

\* lines 466-467: index_array[batch_start:batch_end]
batch_ids(index_array, batch) == SubSeq(index_array, batch[1] + 1, batch[2])

\* get_batch_size(batch_ins): the leading dimension of the sliced arrays.
get_batch_size(batch_ins) == Len(batch_ins)

ShuffleModes == {"false", "true", "batch"}

\* A generator object; st is "none" (no generator), "created" (no code of the
\* body has run yet), "running", "done" (StopIteration) or "raised".
NoGen == [st |-> "none", num_samples |-> 0, batch_size |-> 0, shuffle |-> "false",
          index_array |-> <<>>, batches |-> <<>>, pos |-> 0, cur |-> <<>>]

\* Calling get_batch_generator runs none of its body.
get_batch_generator(num_samples, batch_size, shuffle) ==
    [NoGen EXCEPT !.st = "created", !.num_samples = num_samples,
                  !.batch_size = batch_size, !.shuffle = shuffle]

\* The body from a started generator: the next batch, or StopIteration.
GenYield(g) ==
    IF g.pos < Len(g.batches)
    THEN [g EXCEPT !.st = "running", !.pos = g.pos + 1,
                   !.cur = batch_ids(g.index_array, g.batches[g.pos + 1])]
    ELSE [g EXCEPT !.st = "done", !.cur = <<>>]

\* next(generator): the possible generators afterwards. The first next() runs
\* lines 458-464; make_batches divides by batch_size, a TypeError when it is
\* None.
GenResume(g) ==
    IF g.st = "created"
    THEN IF g.batch_size = None
         THEN {[g EXCEPT !.st = "raised"]}
         ELSE {GenYield([g EXCEPT !.index_array = ia,
                                  !.batches = make_batches(g.num_samples, g.batch_size)]) :
                 ia \in index_arrays(g.num_samples, g.batch_size, g.shuffle)}
    ELSE {GenYield(g)}

(***************************************************************************)
(* State after construction: a compiled model, no loop running.            *)
(***************************************************************************)

MetricBases == {"loss", "acc"}

IdleFit == [pc |-> "idle"]
IdleEv == [pc |-> "idle"]
IdlePr == [pc |-> "idle"]
NoRet == [kind |-> "none"]

Init ==
    /\ \E names \in {<<<<0, "loss">>>>, <<<<0, "loss">>, <<0, "acc">>>>},
          stateful \in SUBSET {<<0, "acc">>},
          has \in BOOLEAN,
          stale \in BOOLEAN :
          \* a model without the attribute 'metrics' has no metric but its loss,
          \* and stateful metric names are names of metrics; the stop flags are
          \* clear, or (one model) were all left set by the runs it has been through
          /\ has = (Len(names) > 1)
          /\ stale => Len(names) = 1
          /\ stateful \subseteq Range(names)
          /\ model = [metrics_names |-> names,
                      n_outs |-> Len(names),
                      stateful_metric_names |-> stateful,
                      has_metrics |-> has,
                      history |-> 0,
                      stop_training |-> stale,
                      stop_evaluating |-> stale,
                      stop_predicting |-> stale]
    /\ top = "idle"
    /\ fit = IdleFit
    /\ ev = IdleEv
    /\ pr = IdlePr
    /\ gen = NoGen
    /\ yielded = <<>>
    /\ trace = <<>>
    /\ cb_params = [kind |-> "none"]
    /\ ret = NoRet
    /\ calls = 0

(***************************************************************************)
(* A direct use of get_batch_generator: call it, then iterate it.          *)
(***************************************************************************)

GenCall ==
    /\ top = "idle"
    /\ calls < MaxCalls
    /\ \E n \in 1..MaxGenSamples, b \in 1..MaxGenSamples, s \in ShuffleModes :
          gen' = get_batch_generator(n, b, s)
    /\ top' = "gen"
    /\ yielded' = <<>>
    /\ calls' = calls + 1
    /\ UNCHANGED <<model, fit, ev, pr, trace, cb_params, ret>>

GenNext ==
    /\ top = "gen"
    /\ gen.st \in {"created", "running"}
    /\ \E g \in GenResume(gen) :
          /\ gen' = g
          /\ yielded' = IF g.st = "running" THEN Append(yielded, g.cur) ELSE yielded
    /\ UNCHANGED <<model, top, fit, ev, pr, trace, cb_params, ret, calls>>

\* The for loop over the generator ended: the caller drops it.
GenDrop ==
    /\ top = "gen"
    /\ gen.st = "done"
    /\ top' = "idle"
    /\ gen' = NoGen
    /\ yielded' = <<>>
    /\ UNCHANGED <<model, fit, ev, pr, trace, cb_params, ret, calls>>

NextGen == GenCall \/ GenNext \/ GenDrop

SpecGen == Init /\ [][NextGen]_vars

(***************************************************************************)
(* The environment: observers and compute steps.                           *)
(***************************************************************************)

\* Values a compute step may report for one metric.
Vals == {10, 20}

\* Inside fit_loop the validation values only travel to the observers: one
\* value stands for them.
TestVals(caller) == IF caller = "fit" THEN {10} ELSE Vals

\* Rows a predict step may produce.
PredVals == {1, 2}

Event(e, i, s, o, f) == [ev |-> e, idx |-> i, size |-> s, outs |-> o, set |-> f]

StopFlags == {"stop_training", "stop_evaluating", "stop_predicting"}

\* The stop flags that are still clear: what an observer can newly set while
\* it handles a notification (observers set the flags, they never clear them).
Settable(m, flags) == {f \in flags : ~m[f]}

\* The model after the observers have set the flags of S.
ObserversSet(m, S) == [f \in DOMAIN m |-> IF f \in S THEN TRUE ELSE m[f]]

\* The flag the observers of an evaluate_loop run may set: its own when it is
\* called directly, the training flag when it validates inside fit_loop (the
\* observers are then those of the fit).
EvalObserverFlags(caller) ==
    IF caller = "fit" THEN {"stop_training"} ELSE {"stop_evaluating"}

Swallow(exc) == UNCHANGED <<top, fit, ev, pr, ret>>

\* An exception leaves every frame: nothing is returned, nothing is caught.
Propagate(exc) ==
    /\ top' = "returned"
    /\ fit' = IdleFit
    /\ ev' = IdleEv
    /\ pr' = IdlePr
    /\ ret' = [kind |-> "raise", exc |-> exc]

\* The caller is done with what the call returned or raised and with the
\* observers it passed; the model object stays as the call left it.
CallerMovesOn ==
    /\ top = "returned"
    /\ top' = "idle"
    /\ ret' = NoRet
    /\ trace' = <<>>
    /\ cb_params' = [kind |-> "none"]
    /\ UNCHANGED <<model, fit, ev, pr, gen, yielded, calls>>

\* check_num_samples(ins, batch_size, steps): the sample count of the arrays;
\* unknown (None) in step mode and when there are no arrays.
check_num_samples(ins, steps) ==
    IF steps # None \/ ins = None \/ ins = 0 THEN None ELSE ins

\* 'val_' + n
ValPrefix(n) == <<n[1] + 1, n[2]>>

(***************************************************************************)
(* evaluate_loop                                                           *)
(***************************************************************************)

\* lines 340-347
stateful_metric_indices(m) ==
    IF m.has_metrics
    THEN {i \in 1..Len(m.metrics_names) : m.metrics_names[i] \in m.stateful_metric_names}
    ELSE {}

\* lines 349-392: the frame evaluate_loop iterates with.
EvalFrame(m, ins, batch_size, steps, caller) ==
    [pc |-> "loop",
     caller |-> caller,
     ins |-> ins,
     batch_size |-> batch_size,
     steps |-> steps,
     stateful |-> stateful_metric_indices(m),
     num_samples |-> check_num_samples(ins, steps),
     outs |-> <<>>,
     index |-> 0,
     size |-> 0,
     batch_outs |-> <<>>,
     gen |-> IF steps # None THEN NoGen
             ELSE get_batch_generator(check_num_samples(ins, steps), batch_size, "false")]

\* lines 379-386: what set_params hands to the observers.
EvalParams(m, ins, batch_size, steps) ==
    [kind |-> "evaluate",
     batch_size |-> batch_size,
     val_steps |-> steps,
     val_samples |-> check_num_samples(ins, steps),
     val_metrics |-> [i \in 1..Len(m.metrics_names) |-> ValPrefix(m.metrics_names[i])]]

\* lines 379-390 on the trace.
EvalSetup == <<Event("set_model", 0, 0, <<>>, {}), Event("set_params", 0, 0, <<>>, {})>>

accumulate_unweighted(outs, batch_outs, size, stateful, first) ==
    [i \in 1..Len(batch_outs) |->
        IF i \in stateful THEN batch_outs[i]
        ELSE (IF first THEN 0 ELSE outs[i]) + batch_outs[i]]

\* lines 409-416 (size is 1) and 441-448: the running sums after one batch.
accumulate(outs, batch_outs, size, stateful, first) ==
    [i \in 1..Len(batch_outs) |->
        IF i \in stateful THEN batch_outs[i]
        ELSE (IF first THEN 0 ELSE outs[i]) + batch_outs[i] * size]

finalize_undivided(outs, stateful, denom) ==
    [i \in 1..Len(outs) |-> [num |-> outs[i], den |-> 1]]

finalize_all(outs, stateful, denom) ==
    [i \in 1..Len(outs) |-> [num |-> outs[i], den |-> denom]]

\* lines 419-421 and 451-453: the sums divided by steps or by num_samples.
finalize(outs, stateful, denom) ==
    [i \in 1..Len(outs) |->
        IF i \in stateful THEN [num |-> outs[i], den |-> 1]
        ELSE [num |-> outs[i], den |-> denom]]

EvalStepMode == ev.steps # None

\* Whether the for loop of evaluate_loop has another iteration.
EvalHasNext ==
    IF EvalStepMode THEN ev.index < ev.steps
    ELSE \E g \in GenResume(ev.gen) : g.st = "running"

\* A top-level call of evaluate_loop.
EvalCall ==
    /\ top = "idle"
    /\ calls < MaxCalls
    /\ \E steps \in {None} \cup 0..MaxSteps :
       \E ins \in IF steps = None THEN 1..MaxEvalSamples ELSE {None},
          batch_size \in IF steps = None THEN {None} \cup 1..MaxEvalBatch ELSE {None} :
          /\ ev' = EvalFrame(model, ins, batch_size, steps, "top")
          /\ cb_params' = EvalParams(model, ins, batch_size, steps)
    /\ model' = [model EXCEPT !.stop_evaluating = FALSE]
    /\ trace' = EvalSetup
    /\ top' = "evaluate"
    /\ ret' = NoRet
    /\ calls' = calls + 1
    /\ UNCHANGED <<fit, pr, gen, yielded>>

\* lines 395-400 and 424-432: the next batch exists; its begin notification.
EvalBatchBegin ==
    /\ ev.pc = "loop"
    /\ EvalHasNext
    /\ \E g \in IF EvalStepMode THEN {NoGen} ELSE GenResume(ev.gen) :
       \E S \in SUBSET Settable(model, EvalObserverFlags(ev.caller)) :
          LET size == IF EvalStepMode THEN 1 ELSE get_batch_size(g.cur)
          IN  /\ ev' = [ev EXCEPT !.pc = "test", !.gen = g, !.size = size]
              /\ trace' = Append(trace,
                            Event("on_evaluate_batch_begin", ev.index, size, <<>>, S))
              /\ model' = ObserversSet(model, S)
    /\ UNCHANGED <<top, fit, pr, gen, yielded, cb_params, ret, calls>>

\* The first next() of the generator raises (batch_size is None).
EvalGeneratorRaises ==
    /\ ev.pc = "loop"
    /\ ~EvalStepMode
    /\ \E g \in GenResume(ev.gen) : g.st = "raised"
    /\ Propagate("TypeError")
    /\ UNCHANGED <<model, gen, yielded, trace, cb_params, calls>>

\* lines 402 and 434: the test step returns its metric values, or raises.
EvalTestStep ==
    /\ ev.pc = "test"
    /\ \/ /\ \E o \in [1..model.n_outs -> TestVals(ev.caller)] :
                /\ ev' = [ev EXCEPT !.pc = "batch_end", !.batch_outs = o]
                /\ trace' = Append(trace, Event("test_function", ev.index, ev.size, o, {}))
          /\ UNCHANGED <<top, fit, pr, ret>>
       \/ /\ trace' = Append(trace, Event("test_function_raises", ev.index, ev.size, <<>>, {}))
          /\ Propagate("ComputeError")
    /\ UNCHANGED <<model, gen, yielded, cb_params, calls>>

\* lines 407-418 and 439-450: the end notification, the accumulation and the
\* poll of the stop flag.
EvalBatchEnd ==
    /\ ev.pc = "batch_end"
    /\ \E S \in SUBSET Settable(model, EvalObserverFlags(ev.caller)) :
          /\ model' = ObserversSet(model, S)
          /\ trace' = Append(trace,
                        Event("on_evaluate_batch_end", ev.index, ev.size, ev.batch_outs, S))
          /\ ev' = [ev EXCEPT
                     !.outs = accumulate(ev.outs, ev.batch_outs, ev.size, ev.stateful,
                                         ev.index = 0),
                     !.index = IF model'.stop_evaluating THEN ev.index ELSE ev.index + 1,
                     !.pc = IF model'.stop_evaluating THEN "break" ELSE "loop"]
    /\ UNCHANGED <<top, fit, pr, gen, yielded, cb_params, ret, calls>>

EvalResultOverProcessed ==
    finalize(ev.outs, ev.stateful,
             IF ev.pc # "break" THEN (IF EvalStepMode THEN ev.steps ELSE ev.num_samples)
             ELSE IF EvalStepMode THEN ev.index + 1
             ELSE ev.index * ev.batch_size + ev.size)

\* The value evaluate_loop returns once its loop is over.
EvalResult ==
    finalize(ev.outs, ev.stateful, IF EvalStepMode THEN ev.steps ELSE ev.num_samples)

EvalLoopOver ==
    \/ ev.pc = "break"
    \/ /\ ev.pc = "loop"
       /\ ~EvalHasNext
       /\ (EvalStepMode \/ \A g \in GenResume(ev.gen) : g.st # "raised")

\* lines 419-421, 451-454: return to a top-level caller.
EvalReturn ==
    /\ EvalLoopOver
    /\ ev.caller = "top"
    /\ ret' = [kind |-> "return", loop |-> "evaluate", val |-> EvalResult, frame |-> ev]
    /\ ev' = IdleEv
    /\ top' = "returned"
    /\ UNCHANGED <<model, fit, pr, gen, yielded, trace, cb_params, calls>>

NextEval == EvalCall \/ EvalBatchBegin \/ EvalGeneratorRaises \/ EvalTestStep
            \/ EvalBatchEnd \/ EvalReturn \/ CallerMovesOn

SpecEval == Init /\ [][NextEval]_vars

(***************************************************************************)
(* predict_loop                                                            *)
(***************************************************************************)

\* What a predict step may return for a batch of rows samples (rows is free in
\* step mode): n_out arrays with one row per sample; output i carries the
\* rows' values shifted by 10 * (i - 1), so that no produced row is zero.
PredictOutputs(n_out, lens) ==
    UNION {{[i \in 1..n_out |-> [r \in 1..len |-> rows[r] + 10 * (i - 1)]] :
              rows \in [1..len -> PredVals]} : len \in lens}

\* lines 212-252 and 261, 285-286: the frame predict_loop iterates with.
PredictFrame(ins, batch_size, steps, n_out) ==
    [pc |-> "loop",
     ins |-> ins,
     batch_size |-> batch_size,
     steps |-> steps,
     n_out |-> n_out,
     num_samples |-> check_num_samples(ins, steps),
     index |-> 0,
     size |-> 0,
     batch_outs |-> <<>>,
     unconcatenated_outs |-> <<>>,
     outs |-> <<>>,
     writes |-> <<>>,
     gen |-> IF steps # None THEN NoGen
             ELSE get_batch_generator(check_num_samples(ins, steps), batch_size, "false")]

\* lines 240-245
PredictParams(ins, batch_size, steps) ==
    [kind |-> "predict",
     batch_size |-> batch_size,
     pred_steps |-> steps,
     pred_samples |-> check_num_samples(ins, steps)]

PredictStepMode == pr.steps # None

PredictHasNext ==
    IF PredictStepMode THEN pr.index < pr.steps
    ELSE \E g \in GenResume(pr.gen) : g.st = "running"

\* np.zeros(shape): num_samples rows of zeros.
zeros(n) == [r \in 1..n |-> 0]

prepend_outs(unconcatenated, batch_outs, first) ==
    [i \in 1..Len(batch_outs) |->
        <<batch_outs[i]>> \o (IF first THEN <<>> ELSE unconcatenated[i])]

\* lines 273-277: one list per output, each step's output appended to it.
append_outs(unconcatenated, batch_outs, first) ==
    [i \in 1..Len(batch_outs) |->
        Append(IF first THEN <<>> ELSE unconcatenated[i], batch_outs[i])]

\* lines 280-281: np.concatenate(out, axis=0) for every output.
concatenate_outs(unconcatenated) ==
    [i \in 1..Len(unconcatenated) |-> Flatten(unconcatenated[i])]

slice_start_by_size(batch_index, batch_size, size) == batch_index * size

\* line 307: start = batch_index * batch_size
slice_start(batch_index, batch_size, size) == batch_index * batch_size

\* line 308: arr[start:start + size] = batch_out (a slice stops at the end of arr)
write_slice(arr, start, size, batch_out) ==
    [r \in 1..Len(arr) |->
        IF start < r /\ r <= start + size THEN batch_out[r - start] ELSE arr[r]]

\* How often each row has been assigned: write_slice on the counts.
count_slice(cnt, start, size) ==
    [r \in 1..Len(cnt) |-> IF start < r /\ r <= start + size THEN cnt[r] + 1 ELSE cnt[r]]

never_break(m) == FALSE

\* lines 278 and 309: if callback_model.stop_predicting: break
predict_break(m) == m.stop_predicting

\* A top-level call of predict_loop.
PredictCall ==
    /\ top = "idle"
    /\ calls < MaxCalls
    /\ \E steps \in {None} \cup 0..MaxSteps, n_out \in 1..2 :
       \E ins \in IF steps = None THEN 1..MaxSamples ELSE {None},
          batch_size \in IF steps = None THEN 1..MaxBatch ELSE {None} :
          /\ pr' = PredictFrame(ins, batch_size, steps, n_out)
          /\ cb_params' = PredictParams(ins, batch_size, steps)
    /\ model' = [model EXCEPT !.stop_predicting = FALSE]
    /\ trace' = <<Event("set_model", 0, 0, <<>>, {}), Event("set_params", 0, 0, <<>>, {})>>
    /\ top' = "predict"
    /\ ret' = NoRet
    /\ calls' = calls + 1
    /\ UNCHANGED <<fit, ev, gen, yielded>>

\* lines 262-267 and 287-295: the next batch exists; its begin notification.
PredictBatchBegin ==
    /\ pr.pc = "loop"
    /\ PredictHasNext
    /\ \E g \in IF PredictStepMode THEN {NoGen} ELSE GenResume(pr.gen) :
       \E S \in SUBSET Settable(model, {"stop_predicting"}) :
          LET size == IF PredictStepMode THEN 1 ELSE get_batch_size(g.cur)
          IN  /\ pr' = [pr EXCEPT !.pc = "predict", !.gen = g, !.size = size]
              /\ trace' = Append(trace,
                            Event("on_predict_batch_begin", pr.index, size, <<>>, S))
              /\ model' = ObserversSet(model, S)
    /\ UNCHANGED <<top, fit, ev, gen, yielded, cb_params, ret, calls>>

\* lines 269 and 297: the predict step returns its outputs, or raises.
PredictStep ==
    /\ pr.pc = "predict"
    /\ \/ /\ \E o \in PredictOutputs(pr.n_out,
                        IF PredictStepMode THEN 1..MaxBatch ELSE {pr.size}) :
                /\ pr' = [pr EXCEPT !.pc = "batch_end", !.batch_outs = o]
                /\ trace' = Append(trace,
                              Event("predict_function", pr.index, pr.size, o, {}))
          /\ UNCHANGED <<top, fit, ev, ret>>
       \/ /\ trace' = Append(trace,
                        Event("predict_function_raises", pr.index, pr.size, <<>>, {}))
          /\ Propagate("ComputeError")
    /\ UNCHANGED <<model, gen, yielded, cb_params, calls>>

\* lines 271-279 and 299-310: the end notification, the outputs stored, the
\* poll of the stop flag.
PredictBatchEnd ==
    /\ pr.pc = "batch_end"
    /\ \E S \in SUBSET Settable(model, {"stop_predicting"}) :
          LET first == pr.index = 0
              start == slice_start(pr.index, pr.batch_size, pr.size)
              outs0 == IF first THEN [i \in 1..Len(pr.batch_outs) |-> zeros(pr.num_samples)]
                       ELSE pr.outs
              cnt0  == IF first THEN [i \in 1..Len(pr.batch_outs) |-> zeros(pr.num_samples)]
                       ELSE pr.writes
          IN  /\ model' = ObserversSet(model, S)
              /\ trace' = Append(trace,
                            Event("on_predict_batch_end", pr.index, pr.size, <<>>, S))
              /\ pr' = [pr EXCEPT
                         !.unconcatenated_outs =
                             IF PredictStepMode
                             THEN append_outs(pr.unconcatenated_outs, pr.batch_outs, first)
                             ELSE pr.unconcatenated_outs,
                         !.outs =
                             IF PredictStepMode THEN pr.outs
                             ELSE [i \in 1..Len(pr.batch_outs) |->
                                     write_slice(outs0[i], start, pr.size, pr.batch_outs[i])],
                         !.writes =
                             IF PredictStepMode THEN pr.writes
                             ELSE [i \in 1..Len(pr.batch_outs) |->
                                     count_slice(cnt0[i], start, pr.size)],
                         !.index = IF predict_break(model') THEN pr.index ELSE pr.index + 1,
                         !.pc = IF predict_break(model') THEN "break" ELSE "loop"]
    /\ UNCHANGED <<top, fit, ev, gen, yielded, cb_params, ret, calls>>

\* lines 280-282 and 311: the value predict_loop returns.
PredictResult ==
    IF PredictStepMode THEN concatenate_outs(pr.unconcatenated_outs) ELSE pr.outs

PredictReturn ==
    /\ \/ pr.pc = "break"
       \/ pr.pc = "loop" /\ ~PredictHasNext
    /\ ret' = [kind |-> "return", loop |-> "predict", val |-> PredictResult, frame |-> pr]
    /\ pr' = IdlePr
    /\ top' = "returned"
    /\ UNCHANGED <<model, fit, ev, gen, yielded, trace, cb_params, calls>>

NextPredict == PredictCall \/ PredictBatchBegin \/ PredictStep \/ PredictBatchEnd
               \/ PredictReturn \/ CallerMovesOn

SpecPredict == Init /\ [][NextPredict]_vars

(***************************************************************************)
(* fit_loop                                                                *)
(***************************************************************************)

\* Python truthiness of a count or a list: None, 0 and [] are false.
Truthy(x) == x # None /\ x # 0

do_validation_if_not_none(val_ins, validation_steps) ==
    Truthy(val_ins) \/ validation_steps # None

\* lines 49-57: do_validation
do_validation(val_ins, validation_steps) ==
    Truthy(val_ins) \/ Truthy(validation_steps)

no_config_error(val_ins, steps_per_epoch, validation_steps) == FALSE

\* lines 56-67: whether fit_loop raises its ValueError
config_error(val_ins, steps_per_epoch, validation_steps) ==
    IF Truthy(validation_steps)
    THEN steps_per_epoch = None
    ELSE do_validation(val_ins, validation_steps) /\ Truthy(steps_per_epoch)

\* The arguments of a fit_loop call.
FitArgs ==
    {a \in [ins : {None, MaxFitSamples},
            batch_size : {None} \cup 1..MaxFitSamples,
            shuffle : ShuffleModes,
            epochs : 0..MaxEpochs,
            initial_epoch : 0..1,
            val_ins : {None, 0, 1},
            steps_per_epoch : {None} \cup 0..MaxSteps,
            validation_steps : {None, 0, 1}] :
        IF a.steps_per_epoch = None
        THEN a.ins # None /\ a.batch_size # None /\ a.batch_size <= a.ins
        ELSE a.ins = None /\ a.batch_size = None /\ a.shuffle = "false"}

\* lines 75-78: out_labels and callback_metrics are the list model.metrics_names
\* itself, so += extends the model's list in place.
callback_metrics(names, validating) ==
    IF validating
    THEN names \o [i \in 1..Len(names) |-> ValPrefix(names[i])]
    ELSE names

\* lines 104-113
FitParams(a, names) ==
    [kind |-> "fit",
     batch_size |-> a.batch_size,
     epochs |-> a.epochs,
     steps |-> a.steps_per_epoch,
     samples |-> check_num_samples(a.ins, a.steps_per_epoch),
     val_steps |-> a.validation_steps,
     do_validation |-> do_validation(a.val_ins, a.validation_steps),
     metrics |-> names]

fit_never_break(m) == FALSE

\* lines 141-142, 170-171: if callback_model.stop_training: break (batch loop)
fit_batch_break(m) == m.stop_training

\* lines 182-183: if callback_model.stop_training: break (epoch loop)
fit_epoch_break(m) == m.stop_training

FitStepMode == fit.steps_per_epoch # None

FitHasNext ==
    IF FitStepMode THEN fit.index < fit.steps_per_epoch
    ELSE \E g \in GenResume(fit.gen) : g.st = "running"

\* The batch loop of the epoch is over: broken out of, or exhausted.
FitBatchesOver ==
    \/ fit.pc = "after_batches"
    \/ fit.pc = "batch_loop" /\ ~FitHasNext

\* lines 49-67: the configuration is rejected before anything else happens.
FitCallRaises ==
    /\ top = "idle"
    /\ calls < MaxCalls
    /\ \E a \in FitArgs :
          /\ config_error(a.val_ins, a.steps_per_epoch, a.validation_steps)
          /\ ret' = [kind |-> "raise", exc |-> "ValueError", args |-> a, before |-> model]
    /\ trace' = <<>>
    /\ top' = "returned"
    /\ calls' = calls + 1
    /\ UNCHANGED <<model, fit, ev, pr, gen, yielded, cb_params>>

\* lines 49-113: the configuration is accepted; labels, history and observers
\* are set up.
FitCall ==
    /\ top = "idle"
    /\ calls < MaxCalls
    /\ \E a \in FitArgs :
          LET validating == do_validation(a.val_ins, a.validation_steps)
              names == callback_metrics(model.metrics_names, validating)
          IN  /\ ~config_error(a.val_ins, a.steps_per_epoch, a.validation_steps)
              /\ fit' = [pc |-> "train_begin",
                         ins |-> a.ins,
                         batch_size |-> a.batch_size,
                         shuffle |-> a.shuffle,
                         epochs |-> a.epochs,
                         initial_epoch |-> a.initial_epoch,
                         val_ins |-> a.val_ins,
                         steps_per_epoch |-> a.steps_per_epoch,
                         validation_steps |-> a.validation_steps,
                         do_validation |-> validating,
                         num_train_samples |-> check_num_samples(a.ins, a.steps_per_epoch),
                         before |-> model,
                         epoch |-> a.initial_epoch,
                         index |-> 0,
                         size |-> 0,
                         batch_outs |-> <<>>,
                         epoch_logs |-> <<>>,
                         gen |-> NoGen]
              /\ model' = [model EXCEPT !.metrics_names = names,
                                        !.history = model.history + 1]
              /\ cb_params' = FitParams(a, names)
    /\ trace' = <<Event("set_model", 0, 0, <<>>, {}), Event("set_params", 0, 0, <<>>, {})>>
    /\ top' = "fit"
    /\ ret' = NoRet
    /\ calls' = calls + 1
    /\ UNCHANGED <<ev, pr, gen, yielded>>

FitTrainBeginKeepsFlag ==
    /\ fit.pc = "train_begin"
    /\ \E S \in SUBSET Settable(model, {"stop_training"}) :
          /\ trace' = Append(trace, Event("on_train_begin", 0, 0, <<>>, S))
          /\ model' = ObserversSet(model, S)
    /\ fit' = [fit EXCEPT !.pc = "epoch_loop"]
    /\ UNCHANGED <<top, ev, pr, gen, yielded, cb_params, ret, calls>>

\* lines 114-119: on_train_begin, then the stop flag is cleared.
FitTrainBegin ==
    /\ fit.pc = "train_begin"
    /\ \E S \in SUBSET Settable(model, {"stop_training"}) :
          /\ trace' = Append(trace, Event("on_train_begin", 0, 0, <<>>, S))
          /\ model' = [ObserversSet(model, S) EXCEPT !.stop_training = FALSE]
    /\ fit' = [fit EXCEPT !.pc = "epoch_loop"]
    /\ UNCHANGED <<top, ev, pr, gen, yielded, cb_params, ret, calls>>

\* lines 121-127, 153-154: the next epoch exists; its begin notification.
FitEpochBegin ==
    /\ fit.pc = "epoch_loop"
    /\ fit.epoch < fit.epochs
    /\ \E S \in SUBSET Settable(model, {"stop_training"}) :
          /\ trace' = Append(trace, Event("on_epoch_begin", fit.epoch, 0, <<>>, S))
          /\ model' = ObserversSet(model, S)
    /\ fit' = [fit EXCEPT
                 !.pc = "batch_loop", !.index = 0, !.epoch_logs = <<>>,
                 !.gen = IF FitStepMode THEN NoGen
                         ELSE get_batch_generator(fit.num_train_samples, fit.batch_size,
                                                  fit.shuffle)]
    /\ UNCHANGED <<top, ev, pr, gen, yielded, cb_params, ret, calls>>

FitBatchBeginSkipsStep ==
    /\ fit.pc = "batch_loop"
    /\ FitHasNext
    /\ \E g \in IF FitStepMode THEN {NoGen} ELSE GenResume(fit.gen) :
       \E S \in SUBSET Settable(model, {"stop_training"}) :
          LET size == IF FitStepMode THEN 1 ELSE get_batch_size(g.cur)
          IN  /\ fit' = [fit EXCEPT !.pc = "batch_end", !.gen = g, !.size = size]
              /\ trace' = Append(trace,
                            Event("on_fit_batch_begin", fit.index, size, <<>>, S))
              /\ model' = ObserversSet(model, S)
    /\ UNCHANGED <<top, ev, pr, gen, yielded, cb_params, ret, calls>>

\* lines 128-133 and 155-163: the next batch exists; its begin notification.
FitBatchBegin ==
    /\ fit.pc = "batch_loop"
    /\ FitHasNext
    /\ \E g \in IF FitStepMode THEN {NoGen} ELSE GenResume(fit.gen) :
       \E S \in SUBSET Settable(model, {"stop_training"}) :
          LET size == IF FitStepMode THEN 1 ELSE get_batch_size(g.cur)
          IN  /\ fit' = [fit EXCEPT !.pc = "train", !.gen = g, !.size = size]
              /\ trace' = Append(trace,
                            Event("on_fit_batch_begin", fit.index, size, <<>>, S))
              /\ model' = ObserversSet(model, S)
    /\ UNCHANGED <<top, ev, pr, gen, yielded, cb_params, ret, calls>>

\* lines 135 and 165: the train step returns its metric values, or raises.
FitTrainStep ==
    /\ fit.pc = "train"
    /\ \/ /\ \E o \in [1..model.n_outs -> {10}] :
                /\ fit' = [fit EXCEPT !.pc = "batch_end", !.batch_outs = o]
                /\ trace' = Append(trace,
                              Event("train_function", fit.index, fit.size, o, {}))
          /\ UNCHANGED <<top, ev, pr, ret>>
       \/ /\ trace' = Append(trace,
                        Event("train_function_raises", fit.index, fit.size, <<>>, {}))
          /\ Propagate("ComputeError")
    /\ UNCHANGED <<model, gen, yielded, cb_params, calls>>

\* lines 137-142 and 166-171: the end notification and the poll of the flag.
FitBatchEnd ==
    /\ fit.pc = "batch_end"
    /\ \E S \in SUBSET Settable(model, {"stop_training"}) :
          /\ model' = ObserversSet(model, S)
          /\ trace' = Append(trace,
                        Event("on_fit_batch_end", fit.index, fit.size, fit.batch_outs, S))
          /\ fit' = [fit EXCEPT
                      !.index = IF fit_batch_break(model') THEN fit.index ELSE fit.index + 1,
                      !.gen = IF fit_batch_break(model') THEN NoGen ELSE fit.gen,
                      !.pc = IF fit_batch_break(model') THEN "after_batches"
                             ELSE "batch_loop"]
    /\ UNCHANGED <<top, ev, pr, gen, yielded, cb_params, ret, calls>>

\* lines 144-148 and 173-177: evaluate_loop is called on the validation data,
\* by steps in step mode and by batch_size otherwise (lines 340-392 run).
FitValidate ==
    /\ FitBatchesOver
    /\ fit.do_validation
    /\ LET steps == IF FitStepMode THEN fit.validation_steps ELSE None
           batch_size == IF FitStepMode THEN None ELSE fit.batch_size
       IN  /\ ev' = EvalFrame(model, fit.val_ins, batch_size, steps, "fit")
           /\ cb_params' = EvalParams(model, fit.val_ins, batch_size, steps)
    /\ model' = [model EXCEPT !.stop_evaluating = FALSE]
    /\ trace' = trace \o EvalSetup
    /\ fit' = [fit EXCEPT !.pc = "validating", !.gen = NoGen]
    /\ UNCHANGED <<top, pr, gen, yielded, ret, calls>>

\* lines 419-421, 451-454, then 149-151 and 178-180: evaluate_loop returns to
\* fit_loop, which files the values under 'val_' + label.
EvalReturnToFit ==
    /\ EvalLoopOver
    /\ ev.caller = "fit"
    /\ fit' = [fit EXCEPT
                 !.pc = "epoch_end",
                 !.epoch_logs =
                     [i \in 1..Min(Len(model.metrics_names), Len(EvalResult)) |->
                         [key |-> ValPrefix(model.metrics_names[i]), val |-> EvalResult[i]]]]
    /\ ev' = IdleEv
    /\ UNCHANGED <<model, top, pr, gen, yielded, trace, cb_params, ret, calls>>

\* lines 181-183: on_epoch_end and the poll of the flag.
FitEpochEnd ==
    /\ \/ fit.pc = "epoch_end"
       \/ FitBatchesOver /\ ~fit.do_validation
    /\ \E S \in SUBSET Settable(model, {"stop_training"}) :
          /\ model' = ObserversSet(model, S)
          /\ trace' = Append(trace,
                        Event("on_epoch_end", fit.epoch, 0, fit.epoch_logs, S))
          /\ fit' = [fit EXCEPT
                      !.gen = NoGen,
                      !.epoch = IF fit_epoch_break(model') THEN fit.epoch ELSE fit.epoch + 1,
                      !.pc = IF fit_epoch_break(model') THEN "train_end" ELSE "epoch_loop"]
    /\ UNCHANGED <<top, ev, pr, gen, yielded, cb_params, ret, calls>>

FitTrainEndUnnotified ==
    /\ \/ fit.pc = "train_end"
       \/ fit.pc = "epoch_loop" /\ fit.epoch >= fit.epochs
    /\ ret' = [kind |-> "return", loop |-> "fit", val |-> model.history, frame |-> fit]
    /\ fit' = IdleFit
    /\ top' = "returned"
    /\ UNCHANGED <<model, trace, ev, pr, gen, yielded, cb_params, calls>>

FitTrainEndEarly ==
    /\ \/ fit.pc = "train_end"
       \/ fit.pc = "epoch_loop"
    /\ \E S \in SUBSET Settable(model, {"stop_training"}) :
          /\ model' = ObserversSet(model, S)
          /\ trace' = Append(trace, Event("on_train_end", 0, 0, <<>>, S))
          /\ ret' = [kind |-> "return", loop |-> "fit", val |-> model.history,
                     frame |-> fit]
    /\ fit' = IdleFit
    /\ top' = "returned"
    /\ UNCHANGED <<ev, pr, gen, yielded, cb_params, calls>>

\* lines 184-185: on_train_end, then the History object is returned.
FitTrainEnd ==
    /\ \/ fit.pc = "train_end"
       \/ fit.pc = "epoch_loop" /\ fit.epoch >= fit.epochs
    /\ \E S \in SUBSET Settable(model, {"stop_training"}) :
          /\ model' = ObserversSet(model, S)
          /\ trace' = Append(trace, Event("on_train_end", 0, 0, <<>>, S))
          /\ ret' = [kind |-> "return", loop |-> "fit", val |-> model.history,
                     frame |-> fit]
    /\ fit' = IdleFit
    /\ top' = "returned"
    /\ UNCHANGED <<ev, pr, gen, yielded, cb_params, calls>>

NextFit == FitCallRaises \/ FitCall \/ FitTrainBegin \/ FitEpochBegin \/ FitBatchBegin
           \/ FitTrainStep \/ FitBatchEnd \/ FitValidate \/ EvalBatchBegin
           \/ EvalGeneratorRaises \/ EvalTestStep \/ EvalBatchEnd \/ EvalReturnToFit
           \/ FitEpochEnd \/ FitTrainEnd \/ CallerMovesOn

SpecFit == Init /\ [][NextFit]_vars

(***************************************************************************)
(* Properties                                                              *)
(***************************************************************************)

\* The compute steps of name e on the trace, in call order.
Steps(e) == SelectSeq(trace, LAMBDA x : x.ev = e)

Returned(loop) == top = "returned" /\ ret.kind = "return" /\ ret.loop = loop

\* C1: for num_samples >= 1 and 1 <= batch_size <= num_samples and every
\* shuffle mode, a full iteration of get_batch_generator yields exactly
\* ceil(num_samples/batch_size) batches, and their indices cover
\* 0..num_samples-1 with no index missing and none repeated.
C1_BatchesPartitionIndices ==
    (top = "gen" /\ gen.st = "done" /\ gen.batch_size <= gen.num_samples) =>
        /\ Len(yielded) * gen.batch_size >= gen.num_samples
        /\ (Len(yielded) - 1) * gen.batch_size < gen.num_samples
        /\ Len(Flatten(yielded)) = gen.num_samples
        /\ Range(Flatten(yielded)) = 0..(gen.num_samples - 1)

C1_Witness ==
    /\ top = "gen" /\ gen.st = "done"
    /\ gen.num_samples = 4 /\ gen.batch_size = 3 /\ gen.shuffle = "true"
    /\ Len(yielded) = 2
    /\ yielded[1] # <<0, 1, 2>>

\* Sum over the executed test steps of value_i * size.
WeightedSum(i) ==
    LET T == Steps("test_function")
    IN  SumSeq([k \in 1..Len(T) |-> T[k].outs[i] * T[k].size])

\* Sum over the executed test steps of value_i.
PlainSum(i) ==
    LET T == Steps("test_function")
    IN  SumSeq([k \in 1..Len(T) |-> T[k].outs[i]])

\* Number of samples the executed test steps were given.
SamplesSeen ==
    LET T == Steps("test_function")
    IN  SumSeq([k \in 1..Len(T) |-> T[k].size])

\* The metric indices whose declared name is a declared stateful metric name.
StatefulByName ==
    {i \in 1..Len(model.metrics_names) :
        model.metrics_names[i] \in model.stateful_metric_names}

\* C4: a sample-based evaluate_loop that ran all its batches returns, for
\* every non-stateful metric i, (sum over batches of value_i * size) divided
\* by num_samples, size being the actual size of the batch.
C4_SampleWeightedAverage ==
    (Returned("evaluate") /\ ret.frame.steps = None
        /\ SamplesSeen = ret.frame.num_samples) =>
        /\ Len(ret.val) = model.n_outs
        /\ \A i \in 1..Len(ret.val) :
              i \notin StatefulByName =>
                 ret.val[i].num * ret.frame.num_samples = WeightedSum(i) * ret.val[i].den

\* The example of the claim: sizes 3 and 2, values 10 and 20, result 70/5 = 14.
C4_Witness ==
    /\ Returned("evaluate") /\ ret.frame.steps = None
    /\ ret.frame.num_samples = 5 /\ ret.frame.batch_size = 3
    /\ Len(Steps("test_function")) = 2
    /\ Steps("test_function")[1].outs[1] = 10 /\ Steps("test_function")[1].size = 3
    /\ Steps("test_function")[2].outs[1] = 20 /\ Steps("test_function")[2].size = 2
    /\ ret.val[1] = [num |-> 70, den |-> 5]
    /\ ret.val[1].num = 14 * ret.val[1].den

\* C5: a step-based evaluate_loop (steps = S >= 1) that ran all S steps
\* invoked the test step exactly S times and returns, for every non-stateful
\* metric i, (sum over the steps of value_i) / S.
C5_StepUnweightedMean ==
    (Returned("evaluate") /\ ret.frame.steps # None /\ ret.frame.steps >= 1
        /\ ret.frame.pc = "loop") =>
        /\ Len(Steps("test_function")) = ret.frame.steps
        /\ Len(ret.val) = model.n_outs
        /\ \A i \in 1..Len(ret.val) :
              i \notin StatefulByName =>
                 ret.val[i].num * ret.frame.steps = PlainSum(i) * ret.val[i].den

C5_Witness ==
    /\ Returned("evaluate") /\ ret.frame.steps = 2 /\ ret.frame.pc = "loop"
    /\ Steps("test_function")[1].outs[1] = 10
    /\ Steps("test_function")[2].outs[1] = 20
    /\ ret.val[1] = [num |-> 30, den |-> 2]

\* C6: in both modes of evaluate_loop a metric index is treated as stateful
\* exactly when its name in metrics_names is a stateful metric name, and the
\* value returned for such an index is the value of the last executed test
\* step: not summed, not multiplied by the batch size, not divided.
C6_StatefulTakesLastValue ==
    /\ ev.pc # "idle" => ev.stateful = StatefulByName
    /\ Returned("evaluate") =>
          LET T == Steps("test_function")
          IN  \A i \in 1..Len(ret.val) :
                 IF i \in StatefulByName
                 THEN ret.val[i].num = T[Len(T)].outs[i] * ret.val[i].den
                 ELSE ret.val[i].num
                        = (IF ret.frame.steps = None THEN WeightedSum(i) ELSE PlainSum(i))
                      /\ ret.val[i].den
                        = (IF ret.frame.steps = None THEN ret.frame.num_samples
                           ELSE ret.frame.steps)

C6_Witness ==
    /\ Returned("evaluate") /\ ret.frame.steps = None
    /\ 2 \in StatefulByName
    /\ Len(Steps("test_function")) = 2
    /\ Steps("test_function")[1].outs[2] = 20 /\ Steps("test_function")[1].size = 2
    /\ Steps("test_function")[2].outs[2] = 10
    /\ ret.val[2] = [num |-> 10, den |-> 1]

\* The positions of the trace at which an observer set the flag.
StopSetAt(flag) == {p \in 1..Len(trace) : flag \in trace[p].set}

\* C7: a sample-based predict_loop that ran all its batches returns, per
\* model output, an array of num_samples rows in which every row was written
\* exactly once: batch k (of actual size s_k) went to rows
\* [k*batch_size, k*batch_size + s_k), and no row keeps its initial zero.
C7_SampleRowsWrittenOnce ==
    LET P == Steps("predict_function")
        f == ret.frame
    IN  (Returned("predict") /\ f.steps = None
            /\ SumSeq([k \in 1..Len(P) |-> P[k].size]) = f.num_samples) =>
           /\ Len(ret.val) = f.n_out
           /\ \A i \in 1..Len(ret.val) :
                 /\ Len(ret.val[i]) = f.num_samples
                 /\ \A r \in 1..f.num_samples : f.writes[i][r] = 1 /\ ret.val[i][r] # 0
                 /\ \A k \in 1..Len(P) : \A j \in 1..P[k].size :
                       ret.val[i][(k - 1) * f.batch_size + j] = P[k].outs[i][j]

C7_Witness ==
    /\ Returned("predict") /\ ret.frame.steps = None
    /\ ret.frame.num_samples = 3 /\ ret.frame.batch_size = 2
    /\ Len(Steps("predict_function")) = 2
    /\ Len(ret.val) = 2
    /\ ret.val[1] = <<1, 2, 2>>
    /\ ret.val[2] = <<11, 12, 12>>

\* C8: once an observer has set stop_predicting during a notification of
\* batch k, the predict step is invoked for no batch after k; the outputs of
\* batch k are in the returned result (the last chunk in step mode, its slice
\* in sample mode), and in sample mode the rows of the batches after k are
\* still zero.
C8_PredictHonorsStop ==
    /\ \A p \in StopSetAt("stop_predicting") : \A q \in 1..Len(trace) :
          trace[q].ev \in {"predict_function", "predict_function_raises"}
             => trace[q].idx <= trace[p].idx
    /\ (Returned("predict") /\ StopSetAt("stop_predicting") # {}) =>
          LET P == Steps("predict_function")
              f == ret.frame
              k == trace[CHOOSE p \in StopSetAt("stop_predicting") : TRUE].idx
              last == P[Len(P)]
          IN  /\ Len(P) = k + 1
              /\ last.idx = k
              /\ \A i \in 1..f.n_out :
                    IF f.steps # None
                    THEN SubSeq(ret.val[i], Len(ret.val[i]) - Len(last.outs[i]) + 1,
                                Len(ret.val[i])) = last.outs[i]
                    ELSE /\ \A j \in 1..last.size :
                               ret.val[i][k * f.batch_size + j] = last.outs[i][j]
                         /\ \A r \in 1..f.num_samples :
                               r > k * f.batch_size + last.size => ret.val[i][r] = 0

C8_Witness ==
    /\ Returned("predict") /\ ret.frame.steps = None
    /\ ret.frame.num_samples = 3 /\ ret.frame.batch_size = 1
    /\ \E p \in StopSetAt("stop_predicting") :
          trace[p].ev = "on_predict_batch_begin" /\ trace[p].idx = 1
    /\ ret.val[1] = <<1, 2, 0>>

\* C9: a step-based predict_loop (steps = S >= 1) returns one array per model
\* output, the concatenation in step order 0, 1, ... of that output of every
\* executed step: one chunk per executed step, S chunks when no stop was
\* requested, its length the sum of the chunks' lengths.
C9_StepConcatenation ==
    LET P == Steps("predict_function")
        f == ret.frame
    IN  (Returned("predict") /\ f.steps # None /\ f.steps >= 1) =>
           /\ Len(ret.val) = f.n_out
           /\ \A k \in 1..Len(P) : P[k].idx = k - 1
           /\ Len(P) <= f.steps
           /\ (StopSetAt("stop_predicting") = {} => Len(P) = f.steps)
           /\ \A i \in 1..Len(ret.val) :
                 /\ ret.val[i] = Flatten([k \in 1..Len(P) |-> P[k].outs[i]])
                 /\ Len(ret.val[i]) = SumSeq([k \in 1..Len(P) |-> Len(P[k].outs[i])])

C9_Witness ==
    /\ Returned("predict") /\ ret.frame.steps = 2
    /\ StopSetAt("stop_predicting") = {}
    /\ Len(ret.val) = 2
    /\ Steps("predict_function")[1].outs[1] = <<1>>
    /\ Steps("predict_function")[2].outs[1] = <<2, 1>>
    /\ ret.val[1] = <<1, 2, 1>>
    /\ ret.val[2] = <<11, 12, 11>>

FitNotifications ==
    {"on_train_begin", "on_train_end", "on_epoch_begin", "on_epoch_end",
     "on_fit_batch_begin", "on_fit_batch_end"}

Notifications ==
    FitNotifications \cup {"on_evaluate_batch_begin", "on_evaluate_batch_end",
                           "on_predict_batch_begin", "on_predict_batch_end"}

\* The positions after p on the trace whose event is one of kinds.
Later(p, kinds) == {q \in (p + 1)..Len(trace) : trace[q].ev \in kinds}

\* The first position of a non-empty set of positions.
First(P) == CHOOSE q \in P : \A r \in P : q <= r

\* The epoch that is running at position p: that of the last on_epoch_begin.
EpochAt(p) ==
    LET B == {q \in 1..p : trace[q].ev = "on_epoch_begin"}
    IN  trace[CHOOSE q \in B : \A r \in B : r <= q].idx

\* The step configurations the claim calls invalid: a number of validation
\* steps without steps_per_epoch, or step-based training (steps_per_epoch is
\* not None, the test of line 127) on validation data without validation_steps.
InvalidStepConfig(a) ==
    \/ Truthy(a.validation_steps) /\ a.steps_per_epoch = None
    \/ a.steps_per_epoch # None /\ Truthy(a.val_ins) /\ a.validation_steps = None

\* C2: fit_loop called with an invalid step configuration raises its
\* configuration error before any iteration: an invalid configuration never
\* gets past the check, and when the error is raised no notification was
\* delivered, no step was invoked and the model is as it was.
C2_InvalidConfigFailsFast ==
    /\ fit.pc # "idle" => ~InvalidStepConfig(fit)
    /\ (top = "returned" /\ ret.kind = "raise" /\ ret.exc = "ValueError") =>
          trace = <<>> /\ model = ret.before

\* What does hold: whenever the configuration error is raised, nothing has
\* happened yet; and every configuration with a non-zero steps_per_epoch that
\* the claim calls invalid is rejected.
C2_RaisedBeforeAnySideEffect ==
    /\ (fit.pc # "idle" /\ InvalidStepConfig(fit)) => fit.steps_per_epoch = 0
    /\ (top = "returned" /\ ret.kind = "raise" /\ ret.exc = "ValueError") =>
          trace = <<>> /\ model = ret.before

\* The arguments of the fit_loop call in progress or just returned.
FitCallArgs == IF top = "fit" THEN fit ELSE ret.frame

FitSeen == top = "fit" \/ Returned("fit")

\* The batch-end notifications of fit_loop in which an observer set the flag.
StopInBatchEnd ==
    {p \in StopSetAt("stop_training") : trace[p].ev = "on_fit_batch_end"}

\* C3 as stated: once an observer has set stop_training in the batch-end
\* notification of batch k, no train step runs for a later batch, no later
\* epoch begins, and the next notification delivered is the on_epoch_end of
\* that epoch, with or without validation.
C3_NextNotificationIsEpochEnd ==
    \A p \in StopInBatchEnd :
       /\ Later(p, {"train_function", "train_function_raises",
                    "on_fit_batch_begin", "on_epoch_begin"}) = {}
       /\ Later(p, Notifications) # {} =>
             LET q == First(Later(p, Notifications))
             IN  trace[q].ev = "on_epoch_end" /\ trace[q].idx = EpochAt(p)
       /\ Returned("fit") => Later(p, {"on_epoch_end"}) # {}

\* C3 amended: the same, but the on_epoch_end of that epoch is the next
\* notification of fit_loop itself. Without validation it is the very next
\* notification; with validation evaluate_loop runs first, and its batch
\* notifications come between the batch-end and on_epoch_end.
C3_StopSkipsToEpochEnd ==
    \A p \in StopInBatchEnd :
       /\ Later(p, {"train_function", "train_function_raises",
                    "on_fit_batch_begin", "on_epoch_begin"}) = {}
       /\ Later(p, FitNotifications) # {} =>
             LET q == First(Later(p, FitNotifications))
             IN  /\ trace[q].ev = "on_epoch_end" /\ trace[q].idx = EpochAt(p)
                 /\ Later(p, {"on_epoch_end"}) = {q}
                 /\ IF FitCallArgs.do_validation
                    THEN /\ trace[p + 1].ev = "set_model"
                         /\ \E r \in (p + 1)..(q - 1) :
                               trace[r].ev = "on_evaluate_batch_begin"
                    ELSE q = p + 1
       /\ Returned("fit") => Later(p, {"on_epoch_end"}) # {}

C3_Witness ==
    /\ Returned("fit")
    /\ ret.frame.steps_per_epoch = 2 /\ ret.frame.epochs = 2
    /\ ret.frame.initial_epoch = 0 /\ ret.frame.do_validation
    /\ \E p \in StopInBatchEnd :
          /\ trace[p].idx = 0
          /\ EpochAt(p) = 0
          /\ Later(p, {"test_function"}) # {}
          /\ Later(p, {"on_epoch_end"}) # {}

\* evaluate_loop has been entered during the current fit_loop call: it is
\* running, or its set_params followed that of fit_loop.
EvaluateInvoked == ev.pc # "idle" \/ Len(Steps("set_params")) > 1

\* C10 as stated: with validation inputs absent (None or empty), fit_loop
\* never invokes evaluate_loop, whatever steps_per_epoch and validation_steps
\* pass the configuration check.
C10_NoValInsNoEvaluate ==
    (FitSeen /\ FitCallArgs.val_ins \in {None, 0}) => ~EvaluateInvoked

\* C10 amended: with validation inputs absent and validation_steps None or 0,
\* fit_loop never invokes evaluate_loop. (A non-zero validation_steps alone
\* turns validation on: evaluate_loop then runs by steps on the absent inputs.)
C10_NoValidationNoEvaluate ==
    (FitSeen /\ FitCallArgs.val_ins \in {None, 0}
        /\ ~Truthy(FitCallArgs.validation_steps)) => ~EvaluateInvoked

C10_Witness ==
    /\ Returned("fit")
    /\ ret.frame.val_ins = None /\ ret.frame.validation_steps = 0
    /\ ret.frame.steps_per_epoch = 2
    /\ Len(Steps("on_epoch_end")) = 2
    /\ Len(Steps("train_function")) = 4
    /\ ~EvaluateInvoked

\* The lifecycle notifications of fit_loop on the trace, in delivery order.
FitNotes == SelectSeq(trace, LAMBDA x : x.ev \in FitNotifications)

\* One step of the acceptor of well-nested lifecycle sequences: s is where the
\* sequence stands (st), the epoch that is open or was last closed (epoch, None
\* before the first) and the batch index expected next (next).
NestStep(s, e) ==
    IF s.st = "start" /\ e.ev = "on_train_begin"
    THEN [st |-> "train", epoch |-> None, next |-> 0]
    ELSE IF s.st = "train" /\ e.ev = "on_epoch_begin" /\ e.idx > s.epoch
    THEN [st |-> "epoch", epoch |-> e.idx, next |-> 0]
    ELSE IF s.st = "train" /\ e.ev = "on_train_end"
    THEN [s EXCEPT !.st = "end"]
    ELSE IF s.st = "epoch" /\ e.ev = "on_fit_batch_begin" /\ e.idx = s.next
    THEN [s EXCEPT !.st = "batch"]
    ELSE IF s.st = "batch" /\ e.ev = "on_fit_batch_end" /\ e.idx = s.next
    THEN [s EXCEPT !.st = "epoch", !.next = s.next + 1]
    ELSE IF s.st = "epoch" /\ e.ev = "on_epoch_end" /\ e.idx = s.epoch
    THEN [s EXCEPT !.st = "train"]
    ELSE [s EXCEPT !.st = "bad"]

RECURSIVE Nesting(_, _)
Nesting(N, k) ==
    IF k = 0 THEN [st |-> "start", epoch |-> None, next |-> 0]
    ELSE NestStep(Nesting(N, k - 1), N[k])

\* C11: in a fit_loop run in which nothing raises, the lifecycle notifications
\* are well nested at every moment: on_train_begin first; per epoch one
\* on_epoch_begin(e), then pairs on_fit_batch_begin(i), on_fit_batch_end(i)
\* with i = 0, 1, 2, ..., then one on_epoch_end(e); and when fit_loop returns,
\* exactly one on_train_end, last. No notification of any kind precedes
\* on_train_begin.
C11_LifecycleWellNested ==
    FitSeen =>
       LET N == FitNotes
           s == Nesting(N, Len(N))
           A == {q \in 1..Len(trace) : trace[q].ev \in Notifications}
       IN  /\ s.st # "bad"
           /\ A # {} => trace[First(A)].ev = "on_train_begin"
           /\ Returned("fit") =>
                 /\ s.st = "end"
                 /\ trace[Len(trace)].ev = "on_train_end"
                 /\ Len(Steps("on_train_begin")) = 1
                 /\ Len(Steps("on_train_end")) = 1
                 /\ Len(Steps("on_epoch_begin")) = Len(Steps("on_epoch_end"))
                 /\ Len(Steps("on_fit_batch_begin")) = Len(Steps("on_fit_batch_end"))

C11_Witness ==
    /\ Returned("fit")
    /\ Len(Steps("on_epoch_begin")) = 2
    /\ Len(Steps("on_fit_batch_end")) = 3
    /\ StopInBatchEnd # {}
    /\ Len(Steps("test_function")) = 2

\* C15: when no observer sets the stop flag, a fit_loop run that returns has
\* executed exactly the epochs initial_epoch .. epochs-1, each once and in
\* ascending order, on_epoch_begin and on_epoch_end carrying the epoch number;
\* with initial_epoch >= epochs there is no epoch and no train step, only
\* on_train_begin and on_train_end; the value returned is the History object
\* this call created.
C15_EpochRange ==
    (Returned("fit") /\ StopSetAt("stop_training") = {}) =>
       LET B == Steps("on_epoch_begin")
           E == Steps("on_epoch_end")
           f == ret.frame
           n == IF f.epochs > f.initial_epoch THEN f.epochs - f.initial_epoch ELSE 0
       IN  /\ Len(B) = n /\ Len(E) = n
           /\ \A k \in 1..n : /\ B[k].idx = f.initial_epoch + k - 1
                              /\ E[k].idx = f.initial_epoch + k - 1
           /\ n = 0 => /\ Steps("train_function") = <<>>
                       /\ [k \in 1..Len(FitNotes) |-> FitNotes[k].ev]
                            = <<"on_train_begin", "on_train_end">>
           /\ ret.val = model.history
           /\ ret.val = f.before.history + 1

C15_Witness ==
    /\ Returned("fit") /\ StopSetAt("stop_training") = {}
    /\ ret.frame.initial_epoch = 0 /\ ret.frame.epochs = 2
    /\ ret.frame.before.stop_training
    /\ Len(Steps("on_epoch_end")) = 2
    /\ Steps("on_epoch_end")[2].idx = 1
    /\ Len(Steps("train_function")) = 4

\* The events of a compute step that raised.
RaisedSteps == {"train_function_raises", "test_function_raises", "predict_function_raises"}

ComputeSteps == {"train_function", "test_function", "predict_function"}

BatchBegins == {"on_fit_batch_begin", "on_evaluate_batch_begin", "on_predict_batch_begin"}

BatchEnds == {"on_fit_batch_end", "on_evaluate_batch_end", "on_predict_batch_end"}

\* A compute step was invoked: it returned or it raised.
StepCalls == ComputeSteps \cup RaisedSteps

\* The loop family of a batch event: its begin, compute step and end.
Family(e) ==
    IF e \in {"on_fit_batch_begin", "train_function", "train_function_raises",
              "on_fit_batch_end"} THEN "fit"
    ELSE IF e \in {"on_evaluate_batch_begin", "test_function", "test_function_raises",
                   "on_evaluate_batch_end"} THEN "evaluate"
    ELSE IF e \in {"on_predict_batch_begin", "predict_function",
                   "predict_function_raises", "on_predict_batch_end"} THEN "predict"
    ELSE "none"

\* C12: when a compute step (train, test or predict) raises at batch k, the
\* exception reaches the caller and the failing call is the last thing that
\* happened: no compute step and no notification after it (no batch-end of
\* batch k, no on_epoch_end, no on_train_end), every loop has been left, and
\* neither a History nor a partial result is returned.
C12_ComputeErrorPropagates ==
    /\ \A p \in 1..Len(trace) :
          trace[p].ev \in RaisedSteps =>
             /\ p = Len(trace)
             /\ top = "returned"
             /\ ret.kind = "raise" /\ ret.exc = "ComputeError"
    /\ (top = "returned" /\ ret.kind = "raise" /\ ret.exc = "ComputeError") =>
          /\ trace[Len(trace)].ev \in RaisedSteps
          /\ trace[Len(trace) - 1].ev \in BatchBegins
          /\ trace[Len(trace) - 1].idx = trace[Len(trace)].idx
          /\ fit = IdleFit /\ ev = IdleEv /\ pr = IdlePr
          /\ DOMAIN ret = {"kind", "exc"}

\* A test step of the validation inside a fit_loop run raises in epoch 0.
C12_Witness ==
    /\ top = "returned" /\ ret.kind = "raise" /\ ret.exc = "ComputeError"
    /\ trace[Len(trace)].ev = "test_function_raises"
    /\ Len(Steps("train_function")) >= 1
    /\ Len(Steps("on_epoch_begin")) = 1
    /\ Steps("on_epoch_end") = <<>>
    /\ Steps("on_train_end") = <<>>

\* C13: with shuffle="batch" every batch get_batch_generator yields lies in
\* one batch_size block of the index array: a full batch is the ascending run
\* of batch_size indices that starts at a multiple of batch_size, and the
\* trailing partial block (num_samples mod batch_size indices), if any, is
\* yielded last, unmoved.
C13_BlockShuffleKeepsBlocks ==
    (top = "gen" /\ gen.shuffle = "batch") =>
       LET n == gen.num_samples
           b == gen.batch_size
       IN  \A k \in 1..Len(yielded) :
              LET y == yielded[k]
              IN  /\ Len(y) >= 1 /\ Len(y) <= b
                  /\ \A j \in 1..Len(y) : y[j] = y[1] + j - 1
                  /\ y[1] % b = 0
                  /\ Len(y) < b =>
                        /\ k = CeilDiv(n, b)
                        /\ y[1] = n - (n % b)
                        /\ Len(y) = n % b
                  /\ \A l \in 1..Len(yielded) : l # k => yielded[l][1] # y[1]

C13_Witness ==
    /\ top = "gen" /\ gen.st = "done" /\ gen.shuffle = "batch"
    /\ gen.num_samples = 5 /\ gen.batch_size = 2
    /\ yielded = <<<<2, 3>>, <<0, 1>>, <<4>>>>

\* C14: in fit, evaluate and predict alike, the batches of every run that has
\* ended (returned or raised) were strictly serial: a compute step directly
\* follows the batch-begin notification of its own loop and batch index, a
\* batch-end notification directly follows the compute step of its own loop
\* and batch index, and a batch-begin never follows a batch-begin or a compute
\* step (the previous batch has ended).
C14_BatchesStrictlySerial ==
    (top = "returned" /\ trace # <<>>) =>
    /\ trace[1].ev \notin StepCalls \cup BatchEnds
    /\ \A q \in 2..Len(trace) :
          LET a == trace[q - 1]
              e == trace[q]
          IN  /\ e.ev \in StepCalls =>
                   /\ a.ev \in BatchBegins
                   /\ Family(a.ev) = Family(e.ev)
                   /\ a.idx = e.idx
              /\ e.ev \in BatchEnds =>
                   /\ a.ev \in ComputeSteps
                   /\ Family(a.ev) = Family(e.ev)
                   /\ a.idx = e.idx
              /\ e.ev \in BatchBegins => a.ev \notin BatchBegins \cup StepCalls
              /\ a.ev \in BatchBegins => e.ev \in StepCalls

C14_Witness ==
    /\ Returned("fit")
    /\ Len(Steps("train_function")) = 2
    /\ Len(Steps("on_fit_batch_end")) = 2
    /\ Len(Steps("test_function")) = 1
    /\ Len(Steps("on_evaluate_batch_end")) = 1

\* C16: during a fit_loop run, once on_train_begin has been notified,
\* set_params is not invoked on the observers again, and the params they hold
\* stay those fit_loop set, in epochs with validation too.
C16_ParamsSetOnlyBeforeLoop ==
    (top = "fit" /\ Steps("on_train_begin") # <<>>) =>
       /\ Len(Steps("set_params")) = 1
       /\ cb_params.kind = "fit"
       /\ cb_params.epochs = fit.epochs
       /\ cb_params.do_validation = fit.do_validation

\* What does hold: without validation the observers are configured once, and
\* with validation every call of evaluate_loop configures them again, after
\* the last batch of the epoch and before on_epoch_end.
C16_ParamsResetByValidation ==
    (top = "fit" /\ Steps("on_train_begin") # <<>>) =>
       /\ ~fit.do_validation =>
             Len(Steps("set_params")) = 1 /\ cb_params.kind = "fit"
       /\ Len(Steps("set_params")) > 1 => cb_params.kind = "evaluate"

\* C17: fit_loop leaves the model's declared metric names as they were: during
\* and after the call model.metrics_names is the sequence it was before the
\* call, with or without validation.
C17_MetricNamesUnchanged ==
    FitSeen => model.metrics_names = FitCallArgs.before.metrics_names

\* What does hold: without validation the names are unchanged; with validation
\* the call appends the 'val_' name of every name, doubling the list.
C17_MetricNamesDoubledByValidation ==
    FitSeen =>
       model.metrics_names
          = callback_metrics(FitCallArgs.before.metrics_names, FitCallArgs.do_validation)

\* The last event on the trace ("" when there is none).
LastEvent == IF trace = <<>> THEN "" ELSE trace[Len(trace)].ev

\* What C18 says of the start of a loop and of its batches: fit_loop has
\* stop_training false right after on_train_begin, evaluate_loop and
\* predict_loop have their flag false right after set_params, whatever an
\* earlier run or on_train_begin left in it; a batch loop is broken out of only
\* directly after a batch-end notification; in a run that has ended, whatever
\* flag was set in on_epoch_begin or in a batch-begin notification, the
\* compute step of that batch was invoked; and a run that returns and had a
\* batch to process invoked at least one compute step.
FlagClearedAtStart ==
    /\ (fit.pc = "epoch_loop" /\ LastEvent = "on_train_begin") => ~model.stop_training
    /\ (ev.pc # "idle" /\ LastEvent = "set_params") => ~model.stop_evaluating
    /\ (pr.pc # "idle" /\ LastEvent = "set_params") => ~model.stop_predicting
    /\ fit.pc = "after_batches" => LastEvent = "on_fit_batch_end"
    /\ ev.pc = "break" => LastEvent = "on_evaluate_batch_end"
    /\ pr.pc = "break" => LastEvent = "on_predict_batch_end"
    /\ top = "returned" =>
          \A q \in 1..(Len(trace) - 1) :
             trace[q].ev \in BatchBegins =>
                trace[q + 1].ev \in StepCalls /\ trace[q + 1].idx = trace[q].idx
    /\ (Returned("fit") /\ ret.frame.steps_per_epoch # 0) =>
          \A q \in 1..(Len(trace) - 1) :
             trace[q].ev = "on_epoch_begin" => trace[q + 1].ev = "on_fit_batch_begin"
    /\ (Returned("fit") /\ ret.frame.initial_epoch < ret.frame.epochs
          /\ ret.frame.steps_per_epoch # 0) => Steps("train_function") # <<>>
    /\ (Returned("evaluate") /\ ret.frame.steps # 0) => Steps("test_function") # <<>>
    /\ (Returned("predict") /\ ret.frame.steps # 0) => Steps("predict_function") # <<>>

\* The positions at which an observer set stop_training after fit_loop had
\* cleared it.
StopSetInLoop ==
    {p \in StopSetAt("stop_training") : trace[p].ev # "on_train_begin"}

\* C18 as stated: every loop starts with its own stop flag clear and polls it
\* only after a batch-end notification; so when fit_loop leaves its epoch loop
\* early, a poll after a batch-end notification has seen the flag set.
C18_PolledOnlyAfterBatchEnd ==
    /\ FlagClearedAtStart
    /\ fit.pc = "train_end" =>
          \E p \in StopSetInLoop : Later(p - 1, {"on_fit_batch_end"}) # {}

\* C18 amended: every loop starts with its own stop flag clear; the batch
\* loops poll it only directly after a batch-end notification, and fit_loop
\* polls stop_training once more directly after on_epoch_end, which is where
\* it leaves its epoch loop.
C18_FlagClearedAndPolledAfterBatchEnd ==
    /\ FlagClearedAtStart
    /\ fit.pc = "train_end" => LastEvent = "on_epoch_end" /\ model.stop_training

\* The model came with its flags left set; an observer sets stop_evaluating in
\* the begin notification of batch 0 of 2; the test step of batch 0 still runs.
C18_Witness ==
    /\ Returned("evaluate") /\ ret.frame.steps = 2
    /\ model.stop_predicting
    /\ \E p \in StopSetAt("stop_evaluating") :
          trace[p].ev = "on_evaluate_batch_begin" /\ trace[p].idx = 0
    /\ Len(Steps("test_function")) = 1

NextLoops == NextFit \/ NextEval \/ NextPredict

SpecLoops == Init /\ [][NextLoops]_vars

Next == NextGen \/ NextFit \/ NextEval \/ NextPredict

Spec == Init /\ [][Next]_vars

====
